---------------------------- MODULE Spec2Model ----------------------------
(***************************************************************************)
(* ERPNext -> Nextcloud Talk webhook relay (src/app/main.py).              *)
(*                                                                         *)
(* The model follows webhook_listener and the helpers it calls, one action *)
(* per blocking step of a request: the parse and dedup SELECT, the INSERT  *)
(* into processed_webhooks, the directory GET, the user_cache SELECT, each *)
(* POST of the create-conversation retry loop, the user_cache upsert, the  *)
(* chat POST and the teardown of the request context.  The answers of the  *)
(* three HTTP collaborators are inputs chosen by the environment.          *)
(***************************************************************************)
EXTENDS Integers, Sequences, FiniteSets, TLC

(***************************************************************************)
(* Bounds of the model.                                                    *)
(***************************************************************************)
\* number of request contexts (threads of the server) the model holds
NumWorkers == 2
\* number of webhook deliveries in one behaviour
MaxDeliveries == 2
\* longest form body (number of form keys)
MaxFormKeys == 2
\* most optional fields (reference_name, assigned_by_full_name, due_date)
\* a dict payload carries
MaxOptional == 1

Workers == 1 .. NumWorkers

(***************************************************************************)
(* JSON values.  A value is [t, items]: t is "dict", "list" or "null";     *)
(* items is the sequence of <<key, value>> pairs of a dict in the order    *)
(* they were sent (<<index, value>> for a list).                           *)
(***************************************************************************)
Fields ==
    {"allocated_to", "reference_type", "reference_name",
     "assigned_by_full_name", "due_date"}

OptionalFields == {"reference_name", "assigned_by_full_name", "due_date"}

\* the field names in the order Python compares strings
KeyOrder ==
    <<"allocated_to", "assigned_by_full_name", "due_date",
      "reference_name", "reference_type">>

Rank(k) == CHOOSE i \in DOMAIN KeyOrder : KeyOrder[i] = k

Emails == {"a@x.com"}

FieldValue(k) ==
    CASE k = "allocated_to" -> "a@x.com"
      [] k = "reference_type" -> "Task"
      [] k = "reference_name" -> "T-1"
      [] k = "assigned_by_full_name" -> "Bob"
      [] k = "due_date" -> "2024-01-01"

Null == [t |-> "null", items |-> << >>]

Dict(items) == [t |-> "dict", items |-> items]

List(items) == [t |-> "list", items |-> items]

\* Python truthiness of a parsed JSON value
Truthy(v) == v.t # "null" /\ Len(v.items) > 0

\* dict.get(key): the value of the key, "None" when the key is absent
None == "None"

HasKey(v, k) == \E i \in DOMAIN v.items : v.items[i][1] = k

DictGet(v, k) ==
    IF HasKey(v, k)
    THEN v.items[CHOOSE i \in DOMAIN v.items : v.items[i][1] = k][2]
    ELSE None

\* Python truthiness of a string or None
TruthyStr(s) == s # None /\ s # ""

(***************************************************************************)
(* json.dumps(data, sort_keys=True): the items of a dict sorted by key     *)
(* (insertion sort); a list keeps its order.                               *)
(***************************************************************************)
RECURSIVE Insert(_, _)
Insert(sorted, item) ==
    IF sorted = << >> THEN <<item>>
    ELSE IF Rank(item[1]) < Rank(Head(sorted)[1])
         THEN <<item>> \o sorted
         ELSE <<Head(sorted)>> \o Insert(Tail(sorted), item)

RECURSIVE SortItems(_)
SortItems(items) ==
    IF items = << >> THEN << >>
    ELSE Insert(SortItems(Tail(items)), Head(items))

\* json.dumps without sort_keys
DumpsUnsorted(v) == v

json_dumps(v) ==
    IF v.t = "dict" THEN Dict(SortItems(v.items)) ELSE v


(***************************************************************************)
(* json.loads(key) of a form key, and the request bodies.  A form key is   *)
(* [json, value]: json says whether the key is a JSON text, value is what  *)
(* it parses to.  A body is [kind, value, keys]: kind "json" carries the   *)
(* value request.get_json() returns, "badjson" a JSON content type whose   *)
(* text does not parse, "form" the form keys in order, "none" neither.     *)
(***************************************************************************)
NotJson == [json |-> FALSE, value |-> Null]

JsonKey(v) == [json |-> TRUE, value |-> v]

\* json.loads raises JSONDecodeError exactly on the keys that are no JSON text
Decodes(key) == key.json

json_loads(key) == key.value

\* the items of the fields S in ascending key order, or reversed
ItemsOf(S, reversed) ==
    LET keys == SelectSeq(KeyOrder, LAMBDA k : k \in S)
        n == Len(keys)
    IN  [i \in 1 .. n |->
            LET k == IF reversed THEN keys[n + 1 - i] ELSE keys[i]
            IN  <<k, FieldValue(k)>>]

DictPayloads ==
    {Dict(ItemsOf(S, reversed)) :
        S \in {T \in SUBSET Fields : Cardinality(T \cap OptionalFields) <= MaxOptional},
        reversed \in BOOLEAN}

\* a payload that is no dict: a non-empty JSON list
ListPayload == List(<<<<"0", "x">>>>)

JsonValues == DictPayloads \cup {Null, ListPayload}

FormValues ==
    {Dict(<< >>), Dict(ItemsOf({"allocated_to", "reference_type"}, FALSE))}

FormKeys == {NotJson} \cup {JsonKey(v) : v \in FormValues}

FormBodies ==
    UNION {[1 .. n -> FormKeys] : n \in 1 .. MaxFormKeys}

Bodies ==
    {[kind |-> "none", value |-> Null, keys |-> << >>],
     [kind |-> "badjson", value |-> Null, keys |-> << >>]}
    \cup {[kind |-> "json", value |-> v, keys |-> << >>] : v \in JsonValues}
    \cup {[kind |-> "form", value |-> Null, keys |-> ks] : ks \in FormBodies}

(***************************************************************************)
(* The form loop of webhook_listener: the value of the first key that      *)
(* json.loads accepts, None (Null) when no key parses.                     *)
(***************************************************************************)
\* the loop without its break: the last key that parses wins
RECURSIVE LastParsed(_)
LastParsed(keys) ==
    IF keys = << >> THEN Null
    ELSE IF Decodes(keys[Len(keys)]) THEN json_loads(keys[Len(keys)])
         ELSE LastParsed(SubSeq(keys, 1, Len(keys) - 1))

RECURSIVE FirstParsed(_)
FirstParsed(keys) ==
    IF keys = << >> THEN Null
    ELSE IF Decodes(Head(keys)) THEN json_loads(Head(keys))
         ELSE FirstParsed(Tail(keys))

(***************************************************************************)
(* The HTTP answers of the endpoint: [status, key, text].  key is the key  *)
(* of the JSON body ("error" or "message"); "html" marks an answer the     *)
(* framework made itself (no JSON body): its 400 for a JSON body that does *)
(* not parse, its 500 for an exception webhook_listener did not catch.     *)
(***************************************************************************)
Answer(status, key, text) == [status |-> status, key |-> key, text |-> text]

NoAnswer == Answer(0, "", << >>)

NoDataAnswer == Answer(400, "error", <<"No data or unsupported data format">>)

NoUsableDataAnswer == Answer(400, "error", <<"No usable data received">>)

AlreadyProcessedAnswer == Answer(200, "message", <<"Webhook already processed">>)

MissingAllocatedToAnswer ==
    Answer(400, "error", <<"Missing 'allocated_to' in webhook payload">>)

NoUserDetailsAnswer(email) ==
    Answer(500, "error", <<"Could not fetch user details for ", email>>)

NoFullNameAnswer == Answer(500, "error", <<"Could not retrieve full name">>)

NoConversationAnswer ==
    Answer(500, "error", <<"Could not create or find Talk conversation">>)

SentAnswer == Answer(200, "message", <<"Notification sent to Nextcloud Talk">>)

BadJsonAnswer == Answer(400, "html", <<"Bad Request">>)

UncaughtAnswer == Answer(500, "html", <<"Internal Server Error">>)

(***************************************************************************)
(* The collaborators' answers.                                             *)
(***************************************************************************)
\* display names, as sequences of characters
Names == {<<"A", " ", "S">>, <<"B">>}

NoName == << >>

DirectoryAnswers ==
    {[k |-> "http_error", full_name |-> NoName],
     [k |-> "transport_error", full_name |-> NoName],
     [k |-> "no_data", full_name |-> NoName],
     [k |-> "no_full_name", full_name |-> NoName]}
    \cup {[k |-> "data", full_name |-> n] : n \in Names}

Tokens == {"tok1", "tok2"}

\* what ocs.data.token can hold: a token, the empty string, or nothing
\* (data without a token key: room_data.get('token') is None)
TokenValues == Tokens \cup {"", None}

CreateAnswers ==
    {[k |-> "data", token |-> t] : t \in TokenValues}
    \cup {[k |-> c, token |-> None] :
            c \in {"no_data", "http_429", "http_error", "transport_error"}}

SendAnswers == {"ok", "http_error", "transport_error"}

\* str.replace(old, new) on a sequence of characters
Replace(s, old, new) == [i \in DOMAIN s |-> IF s[i] = old THEN new ELSE s[i]]

get_talk_username(full_name) == Replace(full_name, " ", " ")

Lower(s) == IF s = "Task" THEN "task" ELSE s

\* the notification text of webhook_listener, as the sequence of its parts
Message(full_name, data) ==
    LET due_date == DictGet(data, "due_date")
        reference_type == DictGet(data, "reference_type")
        reference_name == DictGet(data, "reference_name")
        erpnext_doc_url == <<"/app/", Lower(reference_type), "/", reference_name>>
    IN  <<"Hey ", full_name>>
        \o (IF TruthyStr(due_date) THEN <<"Date: ", due_date>> ELSE << >>)
        \o <<"Type: ", reference_type>>
        \o <<"Reference: ", reference_name, erpnext_doc_url>>
        \o <<"Assigned By: ", DictGet(data, "assigned_by_full_name")>>

(***************************************************************************)
(* The two tables of erpnext_talk.db, each the sequence of its rows.       *)
(***************************************************************************)
\* SELECT 1 FROM processed_webhooks WHERE payload = ?
IsProcessed(rows, data_str) == \E i \in DOMAIN rows : rows[i] = data_str

\* the schema (schema.sql) makes payload the key of processed_webhooks
PayloadIsKey == TRUE

\* the INSERT raises sqlite3.IntegrityError: the payload is there already
IntegrityError(rows, data_str) == PayloadIsKey /\ IsProcessed(rows, data_str)

\* an INSERT that is never committed is lost with the request's connection
InsertProcessedUncommitted(rows, data_str) == rows

\* INSERT INTO processed_webhooks (payload) VALUES (?) followed by db.commit()
InsertProcessed(rows, data_str) ==
    IF IntegrityError(rows, data_str) THEN rows ELSE Append(rows, data_str)

\* SELECT room_token FROM user_cache WHERE username = ? ... fetchone()
CacheHit(rows, username) == \E i \in DOMAIN rows : rows[i].username = username

CachedToken(rows, username) ==
    LET first == CHOOSE i \in DOMAIN rows :
                    /\ rows[i].username = username
                    /\ \A j \in 1 .. i - 1 : rows[j].username # username
    IN  rows[first].room_token

\* the schema (schema.sql) makes username the key of user_cache
UsernameIsKey == TRUE

\* a write that is never committed is lost with the request's connection
InsertUncommitted(rows, username, room_token) == rows

\* INSERT OR IGNORE: the row that is there for the username is kept
InsertOrIgnore(rows, username, room_token) ==
    IF CacheHit(rows, username) THEN rows
    ELSE Append(rows, [username |-> username, room_token |-> room_token])

\* INSERT OR REPLACE INTO user_cache (username, room_token) VALUES (?, ?)
\* followed by db.commit()
InsertOrReplace(rows, username, room_token) ==
    LET kept == IF UsernameIsKey
                THEN SelectSeq(rows, LAMBDA r : r.username # username)
                ELSE rows
    IN  Append(kept, [username |-> username, room_token |-> room_token])

max_retries == 5

initial_backoff_delay == 1

(***************************************************************************)
(* State.                                                                  *)
(*   pc[w]        where request context w stands                           *)
(*   req[w]       the locals of webhook_listener and its callees           *)
(*   response[w]  the answer of the request, once it has one               *)
(*   processed_webhooks, user_cache   the rows of the two tables           *)
(*   obs[w]       what an observer of request w has counted: the outbound  *)
(*                calls and their answers, the cache reads and writes, the *)
(*                delays slept, and at its arrival whether its payload had *)
(*                been delivered before and whether user_cache was empty,  *)
(*                and the outbound calls in the order they were made       *)
(*   deliveries   the number of requests received so far                   *)
(*   delivered    the payloads (as key/value sets, whatever the order of   *)
(*                their keys) of the requests answered so far              *)
(*   calls        one record per create_talk_conversation call that has    *)
(*                returned, in the order of return                         *)
(*   crashed      the payloads of the requests that were lost in a crash   *)
(*                of the process after they had passed the dedup check     *)
(*                and inserted their fingerprint                           *)
(***************************************************************************)
VARIABLES pc, req, response, processed_webhooks, user_cache,
          obs, deliveries, delivered, calls, crashed

vars == <<pc, req, response, processed_webhooks, user_cache,
          obs, deliveries, delivered, calls, crashed>>

NoBody == [kind |-> "none", value |-> Null, keys |-> << >>]

NewReq ==
    [body |-> NoBody, data |-> Null, data_str |-> Null,
     allocated_to_email |-> None, full_name |-> NoName,
     talk_username |-> NoName, notification_message |-> << >>,
     room_token |-> None, retries |-> 0, backoff_delay |-> 0]

NewObs ==
    [redelivery |-> FALSE, lookups |-> 0, directory |-> "",
     cache_reads |-> 0, hit |-> FALSE, creates |-> 0, create_answers |-> << >>,
     delays |-> << >>, cache_writes |-> 0, written |-> << >>,
     sends |-> 0, sent_to |-> None, sent |-> "", cache_was_empty |-> FALSE,
     outbound |-> << >>, after_crash |-> FALSE]

\* a payload whatever the order of its keys
Sem(v) == [t |-> v.t, items |-> {v.items[i] : i \in DOMAIN v.items}]

Init ==
    /\ pc = [w \in Workers |-> "idle"]
    /\ req = [w \in Workers |-> NewReq]
    /\ response = [w \in Workers |-> NoAnswer]
    /\ obs = [w \in Workers |-> NewObs]
    /\ processed_webhooks = << >>
    /\ user_cache = << >>
    /\ deliveries = 0
    /\ delivered = {}
    /\ calls = << >>
    /\ crashed = {}

\* the request returns `answer`
Finish(w, r, answer) ==
    /\ pc' = [pc EXCEPT ![w] = "done"]
    /\ req' = [req EXCEPT ![w] = r]
    /\ response' = [response EXCEPT ![w] = answer]
    /\ delivered' = IF Truthy(r.data) THEN delivered \cup {Sem(r.data)}
                    ELSE delivered

\* the request goes on at `label`
Goto(w, r, label) ==
    /\ pc' = [pc EXCEPT ![w] = label]
    /\ req' = [req EXCEPT ![w] = r]
    /\ UNCHANGED <<response, delivered>>

(***************************************************************************)
(* webhook_listener, lines 187-217: the body is parsed, canonicalized and  *)
(* looked up in processed_webhooks.                                        *)
(***************************************************************************)
ParsedData(body) ==
    IF body.kind = "json" THEN body.value
    ELSE IF body.kind = "form" THEN FirstParsed(body.keys)
    ELSE Null

ReceiveFrom(w, bodies) ==
    /\ pc[w] = "idle"
    /\ deliveries < MaxDeliveries
    /\ deliveries' = deliveries + 1
    /\ \E body \in bodies :
        LET data == ParsedData(body)
            r == [NewReq EXCEPT !.body = body, !.data = data,
                                !.data_str = IF Truthy(data) THEN json_dumps(data) ELSE Null]
        IN  /\ obs' = [obs EXCEPT ![w] =
                        [NewObs EXCEPT
                            !.redelivery = Truthy(data) /\ Sem(data) \in delivered,
                            !.after_crash = Truthy(data) /\ Sem(data) \in crashed,
                            !.cache_was_empty = (user_cache = << >>)]]
            /\ IF body.kind = "none" THEN Finish(w, r, NoDataAnswer)
               ELSE IF body.kind = "badjson" THEN Finish(w, r, BadJsonAnswer)
               ELSE IF ~Truthy(data) THEN Finish(w, r, NoUsableDataAnswer)
               ELSE IF IsProcessed(processed_webhooks, r.data_str)
                    THEN Finish(w, r, AlreadyProcessedAnswer)
               ELSE Goto(w, r, "mark")
    /\ UNCHANGED <<processed_webhooks, user_cache, calls, crashed>>

Receive(w) == ReceiveFrom(w, Bodies)

(***************************************************************************)
(* webhook_listener, lines 219-232 and 263-265: the fingerprint is         *)
(* inserted and committed, the fields are read.  data.get on a payload     *)
(* that is no dict, and reference_type.lower() on a missing reference_type *)
(* (None), raise AttributeError, which nothing catches.  ERPNEXT_API_URL   *)
(* is taken to be configured (its .rstrip is not called on None).  The     *)
(* INSERT of a payload another request has inserted since the SELECT       *)
(* raises IntegrityError, which nothing catches either.                    *)
(***************************************************************************)
MarkProcessed(w) ==
    /\ pc[w] = "mark"
    /\ processed_webhooks' = InsertProcessed(processed_webhooks, req[w].data_str)
    /\ LET data == req[w].data
           allocated_to_email == DictGet(data, "allocated_to")
           reference_type == DictGet(data, "reference_type")
           r == [req[w] EXCEPT !.allocated_to_email = allocated_to_email]
       IN  IF IntegrityError(processed_webhooks, req[w].data_str)
           THEN Finish(w, req[w], UncaughtAnswer)
           ELSE IF data.t # "dict" THEN Finish(w, req[w], UncaughtAnswer)
           ELSE IF reference_type = None THEN Finish(w, req[w], UncaughtAnswer)
           ELSE IF ~TruthyStr(allocated_to_email)
                THEN Finish(w, r, MissingAllocatedToAnswer)
           ELSE Goto(w, r, "lookup")
    /\ UNCHANGED <<user_cache, obs, deliveries, calls, crashed>>

(***************************************************************************)
(* fetch_user_details (lines 70-87) and lines 234-249, 257-262 of          *)
(* webhook_listener: one GET; every RequestException gives None.           *)
(***************************************************************************)
NoDetails == [present |-> FALSE, full_name |-> NoName]

Details(full_name) == [present |-> TRUE, full_name |-> full_name]

\* an except clause that returns a dict describing the error instead of None
fetch_user_details_error_dict(a) ==
    IF a.k = "no_data" THEN NoDetails ELSE Details(a.full_name)

\* what fetch_user_details returns on the directory's answer: None on a
\* RequestException (raise_for_status on an HTTP error, a transport error)
\* and when the answer has no data, else the data
fetch_user_details(a) ==
    IF a.k \in {"http_error", "transport_error", "no_data"} THEN NoDetails
    ELSE Details(a.full_name)

FetchUserDetails(w) ==
    /\ pc[w] = "lookup"
    /\ \E a \in DirectoryAnswers :
        LET user_details == fetch_user_details(a)
            full_name == user_details.full_name
            r == [req[w] EXCEPT
                    !.full_name = full_name,
                    !.talk_username = get_talk_username(full_name),
                    !.notification_message = Message(full_name, req[w].data)]
        IN  /\ obs' = [obs EXCEPT ![w].lookups = @ + 1, ![w].directory = a.k,
                                  ![w].outbound = Append(@, "directory")]
            /\ IF ~user_details.present
               THEN Finish(w, req[w], NoUserDetailsAnswer(req[w].allocated_to_email))
               ELSE IF full_name = NoName THEN Finish(w, req[w], NoFullNameAnswer)
               ELSE Goto(w, r, "cache")
    /\ UNCHANGED <<processed_webhooks, user_cache, deliveries, calls, crashed>>

(***************************************************************************)
(* create_talk_conversation returns room_token to webhook_listener (lines  *)
(* 250-256): a truthy token goes on to the send, anything else is answered *)
(* 500.                                                                    *)
(***************************************************************************)
\* a caller that sends whatever the call returned
ReturnUnchecked(w, r, o, room_token) ==
    /\ obs' = [obs EXCEPT ![w] = o]
    /\ calls' = Append(calls,
                  [username |-> r.talk_username, room_token |-> room_token,
                   hit |-> o.hit, creates |-> o.creates,
                   rate_limited |-> Len(o.delays),
                   cache_reads |-> o.cache_reads, cache_writes |-> o.cache_writes])
    /\ Goto(w, [r EXCEPT !.room_token = room_token], "send")

Return(w, r, o, room_token) ==
    /\ obs' = [obs EXCEPT ![w] = o]
    /\ calls' = Append(calls,
                  [username |-> r.talk_username, room_token |-> room_token,
                   hit |-> o.hit, creates |-> o.creates,
                   rate_limited |-> Len(o.delays),
                   cache_reads |-> o.cache_reads, cache_writes |-> o.cache_writes])
    /\ IF TruthyStr(room_token)
       THEN Goto(w, [r EXCEPT !.room_token = room_token], "send")
       ELSE Finish(w, [r EXCEPT !.room_token = room_token], NoConversationAnswer)

(***************************************************************************)
(* create_talk_conversation, lines 101-125: the user_cache SELECT; a row   *)
(* is returned at once, a miss enters the retry loop.                      *)
(***************************************************************************)
CacheLookup(w) ==
    /\ pc[w] = "cache"
    /\ LET username == req[w].talk_username
           o == [obs[w] EXCEPT !.cache_reads = @ + 1]
       IN  IF CacheHit(user_cache, username)
           THEN Return(w, req[w], [o EXCEPT !.hit = TRUE],
                       CachedToken(user_cache, username))
           ELSE /\ obs' = [obs EXCEPT ![w] = o]
                /\ Goto(w, [req[w] EXCEPT !.retries = 0,
                                          !.backoff_delay = initial_backoff_delay],
                        "create")
                /\ UNCHANGED calls
    /\ UNCHANGED <<processed_webhooks, user_cache, deliveries, crashed>>

(***************************************************************************)
(* create_talk_conversation, lines 127-159: one pass of the retry loop,    *)
(* that is one POST and what its answer leads to.  A 429 sleeps            *)
(* backoff_delay, doubles it and counts a retry; the loop ends when        *)
(* retries reaches max_retries.                                            *)
(***************************************************************************)
\* a loop that goes round once more
RetriesLeftOneMore(retries) == retries <= max_retries

RetriesLeft(retries) == retries < max_retries

\* a loop that retries after every HTTP error
IsHttpError(k) == k \in {"http_429", "http_error"}

\* e.response.status_code == 429
IsRateLimited(k) == k = "http_429"

\* a backoff that grows by one instead of doubling
NextBackoffLinear(backoff_delay) == backoff_delay + 1

NextBackoff(backoff_delay) == backoff_delay * 2

CreateAttempt(w) ==
    /\ pc[w] = "create"
    /\ RetriesLeft(req[w].retries)
    /\ \E a \in CreateAnswers :
        LET o == [obs[w] EXCEPT !.creates = @ + 1,
                                !.create_answers = Append(@, a.k),
                                !.outbound = Append(@, "create")]
        IN  CASE a.k = "data" ->
                    /\ obs' = [obs EXCEPT ![w] = o]
                    /\ Goto(w, [req[w] EXCEPT !.room_token = a.token], "store")
                    /\ UNCHANGED calls
              [] IsRateLimited(a.k) ->
                    LET r == [req[w] EXCEPT
                                !.retries = @ + 1,
                                !.backoff_delay = NextBackoff(@)]
                        slept == [o EXCEPT !.delays = Append(@, req[w].backoff_delay)]
                    IN  IF RetriesLeft(r.retries)
                        THEN /\ obs' = [obs EXCEPT ![w] = slept]
                             /\ Goto(w, r, "create")
                             /\ UNCHANGED calls
                        ELSE Return(w, r, slept, None)
              [] OTHER -> Return(w, req[w], o, None)
    /\ UNCHANGED <<processed_webhooks, user_cache, deliveries, crashed>>

(***************************************************************************)
(* create_talk_conversation, lines 133-141: the token of the answer is     *)
(* written to user_cache and committed, then returned.  The token is what  *)
(* room_data.get('token') gave: None when the answer has no token.  A      *)
(* room_token column that refused NULL would make the INSERT raise         *)
(* IntegrityError, which nothing catches.                                  *)
(***************************************************************************)
\* the schema (schema.sql) lets the room_token column hold NULL
RoomTokenMayBeNull == TRUE

CacheStore(w) ==
    /\ pc[w] = "store"
    /\ IF req[w].room_token = None /\ ~RoomTokenMayBeNull
       THEN /\ Finish(w, req[w], UncaughtAnswer)
            /\ UNCHANGED <<user_cache, obs, calls>>
       ELSE /\ user_cache' = InsertOrReplace(user_cache, req[w].talk_username,
                                             req[w].room_token)
            /\ Return(w, req[w],
                      [obs[w] EXCEPT !.cache_writes = @ + 1,
                                     !.written = <<req[w].talk_username,
                                                   req[w].room_token>>],
                      req[w].room_token)
    /\ UNCHANGED <<processed_webhooks, deliveries, crashed>>

(***************************************************************************)
(* send_talk_message (lines 162-183) and lines 252-253: one POST; its      *)
(* result (True or False) is not looked at.                                *)
(***************************************************************************)
AnswerAfterSend(sent) == SentAnswer

\* a send that is tried again when the POST failed
SendTalkMessageRetrying(w) ==
    /\ pc[w] = "send"
    /\ \E a \in SendAnswers :
        /\ obs' = [obs EXCEPT ![w].sends = @ + 1,
                              ![w].sent_to = req[w].room_token,
                              ![w].sent = a,
                              ![w].outbound = Append(@, "send")]
        /\ IF a = "ok" \/ obs[w].sends > 0
           THEN Finish(w, req[w], AnswerAfterSend(a))
           ELSE Goto(w, req[w], "send")
    /\ UNCHANGED <<processed_webhooks, user_cache, deliveries, calls, crashed>>

SendTalkMessage(w) ==
    /\ pc[w] = "send"
    /\ \E a \in SendAnswers :
        /\ obs' = [obs EXCEPT ![w].sends = @ + 1,
                              ![w].sent_to = req[w].room_token,
                              ![w].sent = a,
                              ![w].outbound = Append(@, "send")]
        /\ Finish(w, req[w], AnswerAfterSend(a))
    /\ UNCHANGED <<processed_webhooks, user_cache, deliveries, calls, crashed>>

(***************************************************************************)
(* close_db (lines 49-54): the request context is torn down.               *)
(***************************************************************************)
CloseDb(w) ==
    /\ pc[w] = "done"
    /\ pc' = [pc EXCEPT ![w] = "idle"]
    /\ req' = [req EXCEPT ![w] = NewReq]
    /\ response' = [response EXCEPT ![w] = NoAnswer]
    /\ obs' = [obs EXCEPT ![w] = NewObs]
    /\ UNCHANGED <<processed_webhooks, user_cache, deliveries, delivered, calls,
                   crashed>>

(***************************************************************************)
(* Spec: the server handles one request at a time (request context 1).     *)
(***************************************************************************)
Next ==
    \/ Receive(1)
    \/ MarkProcessed(1)
    \/ FetchUserDetails(1)
    \/ CacheLookup(1)
    \/ CreateAttempt(1)
    \/ CacheStore(1)
    \/ SendTalkMessage(1)
    \/ CloseDb(1)

Spec == Init /\ [][Next]_vars

(***************************************************************************)
(* SpecThreaded: the server handles requests in threads (app.run is        *)
(* threaded by default), each with its own request context and sqlite      *)
(* connection; the steps of the requests interleave, every SQL statement   *)
(* with its commit being one step.  The bodies are JSON task assignments:  *)
(* one in both key orders, and a second one with a reference_name.         *)
(***************************************************************************)
ThreadedPayloads ==
    {Dict(ItemsOf({"allocated_to", "reference_type"}, FALSE)),
     Dict(ItemsOf({"allocated_to", "reference_type"}, TRUE)),
     Dict(ItemsOf({"allocated_to", "reference_type", "reference_name"}, FALSE))}

ThreadedBodies ==
    {body \in Bodies : body.kind = "json" /\ body.value \in ThreadedPayloads}

ReceiveThreaded(w) == ReceiveFrom(w, ThreadedBodies)

NextThreaded ==
    \E w \in Workers :
        \/ ReceiveThreaded(w)
        \/ MarkProcessed(w)
        \/ FetchUserDetails(w)
        \/ CacheLookup(w)
        \/ CreateAttempt(w)
        \/ CacheStore(w)
        \/ SendTalkMessage(w)
        \/ CloseDb(w)

SpecThreaded == Init /\ [][NextThreaded]_vars

(***************************************************************************)
(* SpecLive: every outbound call returns and the request thread keeps      *)
(* running, so a request in flight always takes its next step.  Nothing is *)
(* asked of the arrival of requests or of the teardown.                    *)
(***************************************************************************)
InFlight == {"mark", "lookup", "cache", "create", "store", "send"}

AfterMark == InFlight \ {"mark"}

Step(w) ==
    \/ MarkProcessed(w)
    \/ FetchUserDetails(w)
    \/ CacheLookup(w)
    \/ CreateAttempt(w)
    \/ CacheStore(w)
    \/ SendTalkMessage(w)

SpecLive == Init /\ [][Next]_vars /\ WF_vars(Step(1))

(***************************************************************************)
(* SpecCrash: the same server, whose process may die while a request is    *)
(* between its dedup SELECT and its response.  The request's context is    *)
(* lost and nothing is answered; the sqlite file keeps what was committed. *)
(***************************************************************************)
Crash(w) ==
    /\ pc[w] \in InFlight
    /\ pc' = [pc EXCEPT ![w] = "idle"]
    /\ req' = [req EXCEPT ![w] = NewReq]
    /\ response' = [response EXCEPT ![w] = NoAnswer]
    /\ obs' = [obs EXCEPT ![w] = NewObs]
    /\ crashed' = IF pc[w] \in AfterMark
                  THEN crashed \cup {Sem(req[w].data)}
                  ELSE crashed
    /\ UNCHANGED <<processed_webhooks, user_cache, deliveries, delivered, calls>>

NextCrash ==
    \/ Next
    \/ Crash(1)

SpecCrash == Init /\ [][NextCrash]_vars


(***************************************************************************)
(* Properties.                                                             *)
(***************************************************************************)
Done(w) == pc[w] = "done"

\* the terminal BadRequest outcome: status 400 with an error body
BadRequest(w) ==
    Done(w) /\ response[w].status = 400 /\ response[w].key = "error"

\* the terminal UpstreamError outcome: status 500 with an error body
UpstreamError(w) ==
    Done(w) /\ response[w].status = 500 /\ response[w].key = "error"

NoOutboundCall(w) ==
    obs[w].lookups = 0 /\ obs[w].creates = 0 /\ obs[w].sends = 0

\* the request got past the dedup check with a dict payload
NewDictPayload(w) ==
    /\ req[w].data.t = "dict"
    /\ Truthy(req[w].data)
    /\ response[w] # AlreadyProcessedAnswer

\* C1: a request whose payload (a parseable, non-empty value; identical to or
\* a key-reordering of the earlier one) was delivered before, in a request
\* that has been answered, is answered 200 "Webhook already processed" and
\* makes no directory, create or send call, however the first delivery ended.
C1_SecondDeliveryAlreadyProcessed ==
    \A w \in Workers :
        obs[w].redelivery =>
            /\ Done(w)
            /\ response[w] = AlreadyProcessedAnswer
            /\ NoOutboundCall(w)

\* a payload whose first delivery ended in a failed create call (500) has
\* been delivered again, its keys not in sorted order, and answered
C1_Witness ==
    \E w \in Workers :
        /\ Done(w)
        /\ obs[w].redelivery
        /\ req[w].data.items # req[w].data_str.items
        /\ Len(calls) = 1 /\ calls[1].room_token = None
        /\ response[w] = AlreadyProcessedAnswer

\* C2: a failed send ends the request in UpstreamError (500, error body);
\* 200 "Notification sent to Nextcloud Talk" is answered only when the send
\* succeeded.
C2_FailedSendIsUpstreamError ==
    \A w \in Workers :
        Done(w) =>
            /\ (obs[w].sends > 0 /\ obs[w].sent # "ok") => UpstreamError(w)
            /\ (response[w] = SentAnswer) => (obs[w].sent = "ok")

\* C3: a parseable, not yet processed (dict) payload without allocated_to is
\* answered 400 "Missing 'allocated_to' in webhook payload", whatever other
\* fields it has.
C3_MissingAllocatedToIs400 ==
    \A w \in Workers :
        (Done(w) /\ NewDictPayload(w) /\ ~HasKey(req[w].data, "allocated_to"))
            => response[w] = MissingAllocatedToAnswer

\* the five rows of the response table
InResponseTable(a) ==
    \/ a = AlreadyProcessedAnswer
    \/ a = SentAnswer
    \/ a = MissingAllocatedToAnswer
    \/ a.key = "error" /\ a.status \in {400, 500}

\* C4: every request (that the framework hands a parsed or absent body) ends
\* in one of the five outcomes of the response table; none ends with an
\* uncaught error.
C4_EveryAnswerInTable ==
    \A w \in Workers :
        (Done(w) /\ req[w].body.kind # "badjson") => InResponseTable(response[w])

AllRateLimited(w) ==
    /\ obs[w].creates > 0
    /\ \A i \in DOMAIN obs[w].create_answers : obs[w].create_answers[i] = "http_429"

\* C5: while every create attempt is answered 429, the delays slept are the
\* first of 1, 2, 4, 8, 16, one per attempt; the fifth 429 ends the call:
\* exactly 5 attempts, no sixth, no cache write, the call returns None and
\* the request is answered 500.
C5_BackoffOnRepeated429 ==
    \A w \in Workers :
        AllRateLimited(w) =>
            /\ obs[w].creates <= 5
            /\ obs[w].delays = SubSeq(<<1, 2, 4, 8, 16>>, 1, obs[w].creates)
            /\ obs[w].cache_writes = 0
            /\ pc[w] \in {"create", "done"}
            /\ (pc[w] = "create") => (obs[w].creates < 5)
            /\ Done(w) =>
                /\ obs[w].creates = 5
                /\ req[w].room_token = None
                /\ obs[w].sends = 0
                /\ response[w] = NoConversationAnswer

\* five attempts, all answered 429, and the request has been answered
C5_Witness ==
    \E w \in Workers :
        Done(w) /\ AllRateLimited(w) /\ obs[w].creates = 5

\* calls i and j are two calls in sequence for the same key
SameKeyInSequence(i, j) ==
    /\ i < j
    /\ calls[i].username = calls[j].username
    /\ \A m \in (i + 1) .. (j - 1) : calls[m].username # calls[i].username

\* C6 as stated: two calls in sequence for the same key make exactly one
\* create call and two cache reads in total; the first creates and caches the
\* handle, the second is a cache hit that returns the same handle.
C6_ExactlyOneCreate ==
    \A i, j \in DOMAIN calls :
        SameKeyInSequence(i, j) =>
            /\ calls[i].creates + calls[j].creates = 1
            /\ calls[i].cache_reads + calls[j].cache_reads = 2
            /\ calls[i].cache_writes = 1
            /\ calls[j].hit
            /\ calls[j].room_token = calls[i].room_token

\* C6 amended: when the first of two calls in sequence for the same key
\* misses the cache and its create request is in the end answered with
\* conversation data, the first call makes one create call plus one per 429
\* answer it got before (at most 5) and writes the cache once; the second is
\* a cache hit that returns the same handle with no create call and no cache
\* write; each call reads the cache once.
C6_CreateOnceThenHit ==
    \A i, j \in DOMAIN calls :
        (SameKeyInSequence(i, j) /\ ~calls[i].hit /\ calls[i].cache_writes = 1) =>
            /\ calls[i].creates = calls[i].rate_limited + 1
            /\ calls[i].creates <= 5
            /\ calls[i].cache_reads = 1
            /\ calls[j].cache_reads = 1
            /\ calls[j].hit
            /\ calls[j].creates = 0
            /\ calls[j].cache_writes = 0
            /\ calls[j].room_token = calls[i].room_token

\* a rate-limited create that succeeded, followed by a call for the same key
C6_Witness ==
    \E i, j \in DOMAIN calls :
        /\ SameKeyInSequence(i, j)
        /\ calls[i].rate_limited > 0
        /\ calls[i].cache_writes = 1
        /\ calls[i].room_token \in Tokens
        /\ calls[j].hit

\* C7: on a cache hit the cached handle is returned, the create API is not
\* called, the cache is not written, and the message is sent to the cached
\* handle.
C7_CacheHitSendsToCachedHandle ==
    \A w \in Workers :
        obs[w].hit =>
            /\ obs[w].creates = 0
            /\ obs[w].cache_writes = 0
            /\ req[w].room_token = CachedToken(user_cache, req[w].talk_username)
            /\ pc[w] \in {"send", "done"}
            /\ Done(w) => (obs[w].sends = 1 /\ obs[w].sent_to = req[w].room_token)

\* the collaborators answered as in the scenario whenever they were called:
\* the directory with a display name, the create API (after any 429) with a
\* token
ScenarioAnswers(w) ==
    /\ obs[w].lookups > 0 => obs[w].directory = "data"
    /\ obs[w].creates > 0 =>
        /\ obs[w].create_answers[obs[w].creates] = "data"
        /\ req[w].room_token \in Tokens

\* C8: a new payload with a recipient email, the cache empty, the directory
\* answering with a display name and the create API with a token: one cache
\* write of (display name, token), one message sent to the token, and the
\* answer 200 "Notification sent to Nextcloud Talk".
C8_NewPayloadIsNotified ==
    \A w \in Workers :
        (/\ Done(w)
         /\ NewDictPayload(w)
         /\ DictGet(req[w].data, "allocated_to") \in Emails
         /\ obs[w].cache_was_empty
         /\ ScenarioAnswers(w)) =>
            /\ response[w] = SentAnswer
            /\ obs[w].lookups = 1
            /\ obs[w].cache_writes = 1
            /\ obs[w].written = <<req[w].full_name, req[w].room_token>>
            /\ obs[w].sends = 1
            /\ obs[w].sent_to = req[w].room_token

\* C9: a failed directory lookup (HTTP error or transport error) for email E
\* is answered 500 "Could not fetch user details for E", with no cache read,
\* no create call and no send.
C9_FailedLookupIs500 ==
    \A w \in Workers :
        obs[w].directory \in {"http_error", "transport_error"} =>
            /\ Done(w)
            /\ response[w] =
                Answer(500, "error", <<"Could not fetch user details for ",
                                       DictGet(req[w].data, "allocated_to")>>)
            /\ obs[w].lookups = 1
            /\ obs[w].cache_reads = 0
            /\ obs[w].creates = 0
            /\ obs[w].sends = 0

\* a lookup answered with an HTTP error, and the request answered
C9_Witness ==
    \E w \in Workers :
        Done(w) /\ obs[w].directory = "http_error" /\ response[w].status = 500

\* key i is the first form key that is a JSON text
FirstJsonKey(keys, i) ==
    /\ i \in DOMAIN keys
    /\ Decodes(keys[i])
    /\ \A j \in 1 .. (i - 1) : ~Decodes(keys[j])

\* C10: no body, a form body with no JSON key, and a body whose payload is
\* an empty value end in BadRequest (400, error body); the payload of a form
\* body is the value of its first key that is a JSON text.
C10_NoPayloadIsBadRequest ==
    \A w \in Workers :
        pc[w] # "idle" =>
            LET body == req[w].body
            IN  /\ body.kind = "none" => BadRequest(w)
                /\ (body.kind = "json" /\ ~Truthy(body.value)) => BadRequest(w)
                /\ (body.kind = "form"
                    /\ \A i \in DOMAIN body.keys : ~Decodes(body.keys[i]))
                        => BadRequest(w)
                /\ \A i \in DOMAIN body.keys :
                    (body.kind = "form" /\ FirstJsonKey(body.keys, i)) =>
                        /\ req[w].data = body.keys[i].value
                        /\ ~Truthy(body.keys[i].value) => BadRequest(w)
                        /\ Truthy(body.keys[i].value) =>
                            /\ ~BadRequest(w)
                            /\ Sem(req[w].data_str) = Sem(body.keys[i].value)

\* a form body whose first JSON key is an empty value and whose second is
\* not, answered 400
C10_Witness ==
    \E w \in Workers :
        LET keys == req[w].body.keys
        IN  /\ req[w].body.kind = "form"
            /\ Len(keys) = 2
            /\ Decodes(keys[1]) /\ ~Truthy(keys[1].value)
            /\ Decodes(keys[2]) /\ Truthy(keys[2].value)
            /\ BadRequest(w)

\* C11: a request that has passed the dedup check has its fingerprint in
\* processed_webhooks, committed, before its first outbound call (and at
\* every later step); a redelivery of a payload whose earlier request was
\* answered (also with a failure) or was lost in a crash after that insert
\* is answered "Webhook already processed" and makes no outbound call.
C11_MarkedBeforeOutbound ==
    \A w \in Workers :
        /\ (pc[w] \in AfterMark \/ ~NoOutboundCall(w))
              => IsProcessed(processed_webhooks, req[w].data_str)
        /\ (obs[w].after_crash \/ obs[w].redelivery) =>
              /\ Done(w)
              /\ response[w] = AlreadyProcessedAnswer
              /\ NoOutboundCall(w)

\* a payload whose first request died after its insert, never answered, has
\* been delivered again and answered as already processed
C11_Witness ==
    \E w \in Workers :
        /\ Done(w)
        /\ obs[w].after_crash
        /\ ~obs[w].redelivery
        /\ Len(processed_webhooks) = 1
        /\ response[w] = AlreadyProcessedAnswer

\* the create call's last attempt so far failed with an HTTP error other
\* than 429 or with a transport error
LastAttemptFailedHard(w) ==
    /\ obs[w].creates > 0
    /\ obs[w].create_answers[obs[w].creates] \in {"http_error", "transport_error"}

\* C13: a create attempt that fails with an HTTP error other than 429, or
\* with a transport error, ends the call at once with a failure: it was the
\* last attempt, no backoff delay was waited for it (one delay per earlier
\* 429 only), nothing was cached or sent, and the request is answered 500
\* "Failed to get or create conversation"; also after earlier 429 answers.
C13_HardFailureIsTerminal ==
    \A w \in Workers :
        LastAttemptFailedHard(w) =>
            /\ Done(w)
            /\ response[w] = NoConversationAnswer
            /\ Len(obs[w].create_answers) = obs[w].creates
            /\ \A i \in 1 .. obs[w].creates - 1 :
                   obs[w].create_answers[i] = "http_429"
            /\ Len(obs[w].delays) = obs[w].creates - 1
            /\ obs[w].cache_writes = 0
            /\ obs[w].sends = 0

\* two attempts answered 429, then a third answered with another HTTP error
C13_Witness ==
    \E w \in Workers :
        /\ Done(w)
        /\ obs[w].create_answers = <<"http_429", "http_429", "http_error">>
        /\ obs[w].delays = <<1, 2>>
        /\ response[w] = NoConversationAnswer

\* the create API answered 2xx without a handle: no ocs.data, or ocs.data
\* without a token
AnsweredWithoutHandle(w) ==
    /\ Done(w)
    /\ obs[w].creates > 0
    /\ obs[w].create_answers[obs[w].creates] \in {"no_data", "data"}
    /\ req[w].room_token = None

\* C14: when the create API answers 2xx without a handle (ocs.data absent,
\* or present without a token) the request is answered 500 "Failed to get
\* or create conversation" and user_cache is not written; user_cache is
\* written only with a token the answer carried.
C14_NoHandleIsFailureNotCached ==
    \A w \in Workers :
        /\ AnsweredWithoutHandle(w) =>
              /\ response[w] = NoConversationAnswer
              /\ obs[w].cache_writes = 0
        /\ obs[w].cache_writes > 0 => obs[w].written[2] # None

\* C16: a request makes at most one directory-lookup call and at most one
\* message-send call; once the lookup has failed the request is over with
\* that one call, and once the send has been answered (ok or not) the
\* request is over with that one send.
C16_OneLookupOneSend ==
    \A w \in Workers :
        /\ obs[w].lookups <= 1
        /\ obs[w].sends <= 1
        /\ (obs[w].lookups = 1 /\ obs[w].directory # "data") =>
              Done(w) /\ obs[w].creates = 0 /\ obs[w].sends = 0
        /\ obs[w].sends = 1 => Done(w)

\* a request whose one send failed is over, and so is one whose lookup failed
C16_Witness ==
    \E w \in Workers :
        /\ Done(w)
        /\ obs[w].lookups = 1
        /\ obs[w].sends = 1
        /\ obs[w].sent = "transport_error"
        /\ obs[w].outbound = <<"directory", "create", "send">>

\* C17: the create retry loop makes at most 5 calls per invocation, whatever
\* the answers are, and, every outbound call returning, a request that has
\* been received eventually reaches its response.
C17_RequestTerminates ==
    /\ [](\A w \in Workers : obs[w].creates <= 5 /\ req[w].retries <= 5)
    /\ \A w \in Workers : (pc[w] \in InFlight) ~> Done(w)

\* five attempts were all answered 429 and the request has been answered
C17_Witness ==
    \E w \in Workers :
        /\ Done(w)
        /\ obs[w].creates = 5
        /\ obs[w].create_answers = <<"http_429", "http_429", "http_429",
                                     "http_429", "http_429">>
        /\ response[w] = NoConversationAnswer

\* C18: a create_talk_conversation call that returns no usable handle (the
\* caller's failure case) has not written user_cache; every row of
\* user_cache holds a present (non-null) handle; and a call answered from
\* the cache returns a handle a message can be sent to.
C18_FailedCallLeavesCache ==
    /\ \A i \in DOMAIN calls :
          /\ ~TruthyStr(calls[i].room_token) => calls[i].cache_writes = 0
          /\ calls[i].hit => TruthyStr(calls[i].room_token)
    /\ \A j \in DOMAIN user_cache : user_cache[j].room_token # None

\* the place of an outbound call in the order directory, create, send
CallRank(call) ==
    CASE call = "directory" -> 1
      [] call = "create" -> 2
      [] call = "send" -> 3

\* C19: the outbound calls of a request are made in the order directory
\* lookup, create, send; the create API is called only on a cache miss and
\* only after the directory returned a non-empty full name; a message is
\* sent only after a present handle was obtained, from the cache or from a
\* create call answered with one, and to that handle.
C19_OutboundOrder ==
    \A w \in Workers :
        LET calls_made == obs[w].outbound
        IN  /\ \A i, j \in DOMAIN calls_made :
                  i < j => CallRank(calls_made[i]) <= CallRank(calls_made[j])
            /\ calls_made # << >> => calls_made[1] = "directory"
            /\ obs[w].creates > 0 =>
                  /\ obs[w].directory = "data"
                  /\ req[w].full_name # NoName
                  /\ obs[w].cache_reads = 1
                  /\ ~obs[w].hit
            /\ obs[w].sends > 0 =>
                  /\ req[w].full_name # NoName
                  /\ TruthyStr(obs[w].sent_to)
                  /\ \/ obs[w].hit /\ obs[w].creates = 0
                     \/ /\ obs[w].creates > 0
                        /\ obs[w].create_answers[obs[w].creates] = "data"
                        /\ obs[w].written[2] = obs[w].sent_to

\* a lookup, a create call answered 429, a second one answered with a token,
\* then the send to that token
C19_Witness ==
    \E w \in Workers :
        /\ Done(w)
        /\ obs[w].outbound = <<"directory", "create", "create", "send">>
        /\ obs[w].create_answers = <<"http_429", "data">>
        /\ obs[w].sent_to = "tok1"

\* two request contexts hold requests with the same payload
SamePayload(w, v) ==
    /\ w # v
    /\ pc[w] # "idle" /\ pc[v] # "idle"
    /\ Sem(req[w].data) = Sem(req[v].data)

\* C12: of two requests with the same payload that are handled at the same
\* time, in any interleaving, at most one goes on to outbound calls,
\* processed_webhooks holds the fingerprint at most once, and when both
\* have been answered one of them was answered "Webhook already processed".
C12_ConcurrentSamePayloadOnce ==
    \A w, v \in Workers :
        SamePayload(w, v) =>
            /\ NoOutboundCall(w) \/ NoOutboundCall(v)
            /\ Cardinality({i \in DOMAIN processed_webhooks :
                               processed_webhooks[i] = req[w].data_str}) <= 1
            /\ (Done(w) /\ Done(v)) =>
                  \/ response[w] = AlreadyProcessedAnswer
                  \/ response[v] = AlreadyProcessedAnswer

\* the calls so far that wrote user_cache for the username
WritesFor(username) ==
    {i \in DOMAIN calls :
        calls[i].username = username /\ calls[i].cache_writes > 0}

\* the call whose write for the username was committed last
LastWriteFor(username) ==
    CHOOSE i \in WritesFor(username) : \A j \in WritesFor(username) : j <= i

\* C15: in every state user_cache holds at most one row per username, and
\* the row of a username that was written holds the token of the write
\* that was committed last, also when two requests at the same time both
\* missed the cache and both created a conversation for that username.
C15_OneHandleLastWriteWins ==
    /\ \A i, j \in DOMAIN user_cache :
          user_cache[i].username = user_cache[j].username => i = j
    /\ \A c \in DOMAIN calls :
          WritesFor(calls[c].username) # {} =>
            /\ CacheHit(user_cache, calls[c].username)
            /\ CachedToken(user_cache, calls[c].username)
                  = calls[LastWriteFor(calls[c].username)].room_token

\* two requests at the same time missed the cache for the same username,
\* created two conversations and wrote both; the one row of the username
\* holds the token written second
C15_Witness ==
    /\ Len(calls) = 2
    /\ calls[1].username = calls[2].username
    /\ ~calls[1].hit /\ ~calls[2].hit
    /\ calls[1].cache_writes = 1 /\ calls[2].cache_writes = 1
    /\ calls[1].room_token = "tok1" /\ calls[2].room_token = "tok2"
    /\ Len(user_cache) = 1
    /\ user_cache[1].room_token = "tok2"

=============================================================================
